---- MODULE Spec2Model ----
(***************************************************************************)
(* gitup (src/src/lib.rs): the configuration bridge (configure_git,        *)
(* get_git_config), the backup codec (backup_config, restore_config), the  *)
(* profile store (create_profile, use_profile, load_profiles,              *)
(* save_profiles) and the installer dispatch (is_git_installed,            *)
(* install_git).                                                           *)
(*                                                                         *)
(* A string is a sequence of tokens.  "=", "\n" and " " are the characters *)
(* the code treats specially (split('='), lines(), trim()); every other    *)
(* token ("a", "b", "user.name", "user.email") stands for a run of plain   *)
(* characters.  An Option is a sequence of length at most one.             *)
(*                                                                         *)
(* Every subprocess invocation ends in one of three ways, chosen by the    *)
(* environment: it cannot be launched, it exits with a failure status, or  *)
(* it exits with status 0.  The home directory is taken to resolve and     *)
(* reads and writes of files that exist to succeed; a missing file and a   *)
(* file that cannot be parsed are modelled.                                *)
(***************************************************************************)
EXTENDS Naturals, Sequences, FiniteSets

VARIABLES os, git, config, backup, store, last, saved, created, store0, proc

vars == <<os, git, config, backup, store, last, saved, created, store0, proc>>

\* ------------------------------------------------------------------ bounds

\* Lines of a backup file that exists before the program runs.
MaxLines == 2
\* Subprocess invocations of one operation that do not exit with status 0.
MaxFaults == 1

\* ----------------------------------------------------------------- strings

EQ == "="
NL == "\n"
SP == " "
UserName == "user.name"
UserEmail == "user.email"

None == <<>>
Some(v) == <<v>>

Ok == <<"Ok">>
Err(kind, msg) == <<"Err", kind, msg>>

\* How one subprocess invocation can end: Command::output() is Err when the
\* program cannot be launched; otherwise it carries the exit status.
Outcomes == {"ok", "exit_fail", "launch_err"}

Faults(outs) == Cardinality({i \in DOMAIN outs : outs[i] # "ok"})

OutcomeSeqs(n) == {outs \in [1..n -> Outcomes] : Faults(outs) <= MaxFaults}

\* The index of the first sep in s, or 0.
FirstIndex(s, sep) ==
    IF \E i \in 1..Len(s) : s[i] = sep
    THEN CHOOSE i \in 1..Len(s) : s[i] = sep /\ \A j \in 1..(i-1) : s[j] # sep
    ELSE 0

RECURSIVE Split(_, _)
\* str::split(sep): n separators give n+1 parts, empty parts included.
Split(s, sep) ==
    LET i == FirstIndex(s, sep) IN
    IF i = 0 THEN <<s>>
    ELSE <<SubSeq(s, 1, i-1)>> \o Split(SubSeq(s, i+1, Len(s)), sep)

\* str::lines(): split at "\n", a final empty line is not produced.
Lines(content) ==
    LET parts == Split(content, NL) IN
    IF parts[Len(parts)] = <<>> THEN SubSeq(parts, 1, Len(parts)-1) ELSE parts

IsSpace(c) == c \in {SP, NL}

RECURSIVE TrimStart(_)
TrimStart(s) ==
    IF s # <<>> /\ IsSpace(s[1]) THEN TrimStart(Tail(s)) ELSE s

RECURSIVE TrimEnd(_)
TrimEnd(s) ==
    IF s # <<>> /\ IsSpace(s[Len(s)]) THEN TrimEnd(SubSeq(s, 1, Len(s)-1)) ELSE s

\* str::trim()
Trim(s) == TrimEnd(TrimStart(s))

\* writeln!(file, "{key}={value}")
Writeln(key, value) == <<key, EQ>> \o value \o <<NL>>

\* -------------------------------------------------------- ConfigBridge

Keys == {UserName, UserEmail}

\* What `git config --global <key>` prints: the value and a newline, or
\* nothing when the key is unset or git exits with a failure.
GitStdout(cfg, key, out) ==
    IF out = "ok" /\ cfg[key] # None THEN cfg[key][1] \o <<NL>> ELSE <<>>

\* `git config --global <key> <value>`: the value is written only by an
\* invocation that exits with status 0.
GitWrite(cfg, key, value, out) ==
    IF out = "ok" THEN [cfg EXCEPT ![key] = Some(value)] ELSE cfg

\* One subprocess invocation: the key it is about, how it ended, and the
\* line of the backup file it was made for (0 outside restore_config).
Call(key, out, line) == [key |-> key, out |-> out, line |-> line]

\* configure_git(name, email): two invocations; only a launch failure
\* (.output().is_err()) is an error, the exit status is not looked at.
ConfigureGit(cfg, name, email, o1, o2, line) ==
    LET c1 == Call(UserName, o1, line)
        c2 == Call(UserEmail, o2, line)
        cfg1 == GitWrite(cfg, UserName, name, o1)
    IN  IF o1 = "launch_err"
        THEN [cfg |-> cfg, res |-> Err("CommandFailed", "Failed to set Git user.name"),
              calls |-> <<c1>>]
        ELSE IF o2 = "launch_err"
        THEN [cfg |-> cfg1, res |-> Err("CommandFailed", "Failed to set Git user.email"),
              calls |-> <<c1, c2>>]
        ELSE [cfg |-> GitWrite(cfg1, UserEmail, email, o2), res |-> Ok,
              calls |-> <<c1, c2>>]

\* get_git_config(key): Ok(None) for empty trimmed output, Ok(Some(value))
\* otherwise, Err(CommandFailed) when git cannot be launched.
GetGitConfig(cfg, key, out) ==
    IF out = "launch_err"
    THEN [res |-> Err("CommandFailed", "Failed to retrieve Git configuration"), val |-> None]
    ELSE LET value == Trim(GitStdout(cfg, key, out)) IN
         [res |-> Ok, val |-> IF value = <<>> THEN None ELSE Some(value)]

\* get_git_config(key) of a working git: the value the caller sees.
Get(cfg, key) == GetGitConfig(cfg, key, "ok").val

\* ------------------------------------------------------------ operations

\* The record of the most recent operation: its name, its argument, its
\* result and the subprocess invocations it made.
Last(op, arg, res, calls) ==
    [op |-> op, arg |-> arg, res |-> res, calls |-> calls]

NoLast == Last("none", <<>>, Ok, <<>>)

\* Values the callers pass for a name or an e-mail address.
ArgValues == {<<"b">>, <<"a", EQ, "b">>}

\* configure_git(name, email) called directly.
ConfigureGitOp ==
    \E name \in ArgValues, email \in ArgValues, outs \in OutcomeSeqs(2) :
        LET r == ConfigureGit(config, name, email, outs[1], outs[2], 0) IN
        /\ config' = r.cfg
        /\ last' = Last("configure_git", <<name, email>>, r.res, r.calls)
        /\ UNCHANGED <<os, git, backup, store, saved, created, store0, proc>>

\* ----------------------------------------------------------- BackupCodec

\* backup_config: File::create truncates the file, then one line is written
\* for each of user.name and user.email that get_git_config returns.
BackupBody(cfg, o1, o2) ==
    LET r1 == GetGitConfig(cfg, UserName, o1)
        r2 == GetGitConfig(cfg, UserEmail, o2)
        c1 == Call(UserName, o1, 0)
        c2 == Call(UserEmail, o2, 0)
        l1 == IF r1.val # None THEN Writeln(UserName, r1.val[1]) ELSE <<>>
        l2 == IF r2.val # None THEN Writeln(UserEmail, r2.val[1]) ELSE <<>>
    IN  IF r1.res # Ok THEN [file |-> <<>>, res |-> r1.res, calls |-> <<c1>>]
        ELSE IF r2.res # Ok THEN [file |-> l1, res |-> r2.res, calls |-> <<c1, c2>>]
        ELSE [file |-> l1 \o l2, res |-> Ok, calls |-> <<c1, c2>>]

BackupConfig ==
    \E outs \in OutcomeSeqs(2) :
        LET r == BackupBody(config, outs[1], outs[2]) IN
        /\ backup' = Some(r.file)
        /\ saved' = IF r.res = Ok /\ Faults(outs) = 0 THEN Some(config) ELSE None
        /\ last' = Last("backup_config", <<>>, r.res, r.calls)
        /\ UNCHANGED <<os, git, config, store, created, store0, proc>>

\* The test written as parts.len() >= 2.
IsPairMutAtLeast(parts) == Len(parts) >= 2

\* if parts.len() == 2
IsPair(parts) == Len(parts) = 2

RECURSIVE RestoreFrom(_, _, _, _, _)
\* The loop of restore_config from line i on: a line with exactly two
\* parts is handed to configure_git(parts[0], parts[1]), whose error ends
\* the loop; any other line is passed over.
RestoreFrom(lines, i, cfg, outs, calls) ==
    IF i > Len(lines) THEN [cfg |-> cfg, res |-> Ok, calls |-> calls]
    ELSE LET parts == Split(lines[i], EQ) IN
         IF IsPair(parts)
         THEN LET r == ConfigureGit(cfg, parts[1], parts[2],
                                    outs[Len(calls) + 1], outs[Len(calls) + 2], i) IN
              IF r.res = Ok
              THEN RestoreFrom(lines, i + 1, r.cfg, outs, calls \o r.calls)
              ELSE [cfg |-> r.cfg, res |-> r.res, calls |-> calls \o r.calls]
         ELSE RestoreFrom(lines, i + 1, cfg, outs, calls)

\* The most invocations restore_config can make for these lines: two for
\* each line that is handed to configure_git.
MaxCalls(lines) ==
    2 * Cardinality({i \in 1..Len(lines) : IsPair(Split(lines[i], EQ))})

\* restore_config: File::open fails on a missing file; otherwise the whole
\* file is read and its lines are processed in order.
RestoreConfig ==
    IF backup = None
    THEN /\ last' = Last("restore_config", None, Err("IoError", "open"), <<>>)
         /\ UNCHANGED <<os, git, config, backup, store, saved, created, store0, proc>>
    ELSE \E outs \in OutcomeSeqs(MaxCalls(Lines(backup[1]))) :
            LET r == RestoreFrom(Lines(backup[1]), 1, config, outs, <<>>) IN
            /\ config' = r.cfg
            /\ last' = Last("restore_config", backup, r.res, r.calls)
            /\ UNCHANGED <<os, git, backup, store, saved, created, store0, proc>>

\* Lines a backup file found on disk may hold.
LineSet ==
    { <<UserName, EQ, "a">>, <<"a">>, <<UserName, EQ, "a", EQ, "b">> }

RECURSIVE FileOf(_)
\* The file made of the given lines, each ended by a newline.
FileOf(ls) == IF ls = <<>> THEN <<>> ELSE ls[1] \o <<NL>> \o FileOf(Tail(ls))

InitFiles == {FileOf(ls) : ls \in UNION {[1..k -> LineSet] : k \in 0..MaxLines}}

InitConfigs == [Keys -> {None, Some(<<"a">>)}]

InitBackup ==
    /\ config \in InitConfigs
    /\ backup \in {None} \cup {Some(f) : f \in InitFiles}
    /\ saved = None
    /\ last = NoLast
    /\ os = "linux" /\ git = "ok" /\ store = None /\ created = <<>>
    /\ store0 = None /\ proc = <<>>

NextBackup == ConfigureGitOp \/ BackupConfig \/ RestoreConfig

SpecBackup == InitBackup /\ [][NextBackup]_vars

\* ---------------------------------------------------------- ProfileStore

\* Profile names "p1", "p2", ... are written 1, 2, ...
MaxProfiles == 2

ProfileNames == 1..MaxProfiles

\* The (name, email) pairs given to create_profile.
ProfileArgs == {<<<<"a">>, <<"b">>>>, <<<<"b">>, <<"a">>>>}

\* struct GitProfile { name, email }
GitProfile(name, email) == [name |-> name, email |-> email]

\* The profile file is a TOML document: a sequence of tables, one per
\* profile, <<"table", profile_name, name, email>>; <<"junk">> is text
\* that is not TOML.
Table(p, prof) == <<"table", p, prof.name, prof.email>>

Junk == <<"junk">>

EmptyMap == [p \in {} |-> GitProfile(<<>>, <<>>)]

\* toml::from_str::<HashMap<String, GitProfile>>: fails on text that is not
\* TOML and on a table that is defined twice.
ParseToml(data) ==
    IF \/ \E i \in 1..Len(data) : data[i][1] # "table"
       \/ \E i, j \in 1..Len(data) : i # j /\ data[i][2] = data[j][2]
    THEN [res |-> Err("CommandFailed", "Failed to parse profile file"), map |-> EmptyMap]
    ELSE [res |-> Ok,
          map |-> [p \in {data[i][2] : i \in 1..Len(data)} |->
                     LET i == CHOOSE i \in 1..Len(data) : data[i][2] = p
                     IN  GitProfile(data[i][3], data[i][4])]]

\* toml::to_string(&HashMap): one table per entry, in the map's iteration
\* order, which is not determined: every order is a possible output.
TomlStrings(map) ==
    LET n == Cardinality(DOMAIN map)
        orders == {o \in [1..n -> DOMAIN map] : \A i, j \in 1..n : i # j => o[i] # o[j]}
    IN  {[i \in 1..n |-> Table(o[i], map[o[i]])] : o \in orders}

\* load_profiles with a file that cannot be parsed read as an empty store.
LoadProfilesMutDefault(file) ==
    IF file = None THEN [res |-> Ok, map |-> EmptyMap]
    ELSE [res |-> Ok, map |-> ParseToml(file[1]).map]

\* load_profiles: an empty map when the file does not exist, else the
\* parsed file or the parse error.
LoadProfiles(file) ==
    IF file = None THEN [res |-> Ok, map |-> EmptyMap]
    ELSE ParseToml(file[1])

\* insert() that starts from an empty map instead of the loaded one.
InsertMutFresh(map, p, prof) == [q \in {p} |-> prof]

\* HashMap::insert
Insert(map, p, prof) ==
    [q \in DOMAIN map \cup {p} |-> IF q = p THEN prof ELSE map[q]]

\* What an insert does to the entry at p: "new", "same" or "changed".
Replaces(map, p, prof) ==
    IF p \notin DOMAIN map THEN "new"
    ELSE IF map[p] = prof THEN "same" ELSE "changed"

\* create_profile(profile_name, name, email): load, insert, save.
CreateProfile ==
    \E p \in ProfileNames, a \in ProfileArgs :
        LET name == a[1]
            email == a[2]
            l == LoadProfiles(store)
        IN
        IF l.res # Ok
        THEN /\ last' = Last("create_profile", <<p, name, email>>, l.res, <<>>)
             /\ UNCHANGED <<os, git, config, backup, store, saved, created, store0, proc>>
        ELSE \E data \in TomlStrings(Insert(l.map, p, GitProfile(name, email))) :
             /\ store' = Some(data)
             /\ created' = [created EXCEPT ![p] = Some(GitProfile(name, email))]
             /\ last' = Last("create_profile",
                             <<p, name, email, Replaces(l.map, p, GitProfile(name, email))>>,
                             Ok, <<>>)
             /\ UNCHANGED <<os, git, config, backup, saved, store0, proc>>

\* use_profile(profile_name): load, look up, configure_git.
UseProfile ==
    \E p \in ProfileNames, outs \in OutcomeSeqs(2) :
        LET l == LoadProfiles(store) IN
        IF l.res # Ok
        THEN /\ last' = Last("use_profile", <<p>>, l.res, <<>>)
             /\ UNCHANGED <<os, git, config, backup, store, saved, created, store0, proc>>
        ELSE IF p \in DOMAIN l.map
        THEN LET r == ConfigureGit(config, l.map[p].name, l.map[p].email,
                                   outs[1], outs[2], 0) IN
             /\ config' = r.cfg
             /\ last' = Last("use_profile", <<p>>, r.res, r.calls)
             /\ UNCHANGED <<os, git, backup, store, saved, created, store0, proc>>
        ELSE /\ last' = Last("use_profile", <<p>>,
                             Err("CommandFailed", "Profile not found"), <<>>)
             /\ UNCHANGED <<os, git, config, backup, store, saved, created, store0, proc>>

\* get_git_config(key) called directly.
GetGitConfigOp ==
    \E key \in Keys, out \in Outcomes :
        LET r == GetGitConfig(config, key, out) IN
        /\ last' = Last("get_git_config", <<key, r.val>>, r.res, <<Call(key, out, 0)>>)
        /\ UNCHANGED <<os, git, config, backup, store, saved, created, store0, proc>>

\* Profile files found on disk: none, an empty one, one that is not TOML,
\* one that defines a table twice, and one with a profile in it.
InitStores ==
    { None, Some(<<>>), Some(<<Junk>>),
      Some(<<Table(1, GitProfile(<<"a">>, <<"b">>)), Table(1, GitProfile(<<"b">>, <<"a">>))>>),
      Some(<<Table(2, GitProfile(<<"b">>, <<"a">>))>>) }

Init ==
    /\ config \in InitConfigs
    /\ store \in InitStores
    /\ store0 = store
    /\ created = [p \in ProfileNames |-> None]
    /\ last = NoLast
    /\ os = "linux" /\ git = "ok" /\ backup = None /\ saved = None /\ proc = <<>>

Next == CreateProfile \/ UseProfile \/ GetGitConfigOp

Spec == Init /\ [][Next]_vars

\* ------------------------------------------------------ InstallerDispatch

OsKinds == {"macos", "linux", "windows", "other"}

\* One subprocess invocation of the installer: the command line, whether it
\* is a probe or an install, and how it ended.
Run(cmd, kind, out) == [cmd |-> cmd, kind |-> kind, out |-> out]

\* is_git_installed: `git --version`; Ok(true) on exit status 0, Ok(false)
\* on any other status, Err(NotFound) when git cannot be launched.
IsGitInstalledBody(g) ==
    [res |-> IF g = "launch_err" THEN Err("NotFound", "")
             ELSE <<"Ok", g = "ok">>,
     calls |-> <<Run("git --version", "probe", g)>>]

IsGitInstalled ==
    LET r == IsGitInstalledBody(git) IN
    /\ last' = Last("is_git_installed", <<>>, r.res, r.calls)
    /\ UNCHANGED <<os, git, config, backup, store, saved, created, store0, proc>>

\* run_command that takes a launched command for a successful one.
RunCommandMutNoStatus(name, out) ==
    IF out = "launch_err"
    THEN Err("CommandFailed", "Failed to run command: " \o name)
    ELSE Ok

\* run_command(cmd, args): Ok only on exit status 0.
RunCommand(name, out) ==
    IF out = "launch_err"
    THEN Err("CommandFailed", "Failed to run command: " \o name)
    ELSE IF out = "ok" THEN Ok
    ELSE Err("CommandFailed", "Command failed with status")

\* Command::new(..).output().is_ok(): the probe could be launched.
ProbeOk(out) == out # "launch_err"

\* install_git on the operating system o, with the outcomes of the
\* invocations it may make: the first probe, the second probe, the install.
InstallBody(o, p1, p2, inst) ==
    IF o = "macos" THEN
        IF ~ProbeOk(p1)
        THEN [res |-> Err("CommandFailed",
                          "Homebrew is not installed. Please install Homebrew first."),
              calls |-> <<Run("brew --version", "probe", p1)>>]
        ELSE [res |-> RunCommand("brew", inst),
              calls |-> <<Run("brew --version", "probe", p1),
                          Run("brew install git", "install", inst)>>]
    ELSE IF o = "linux" THEN
        IF ProbeOk(p1)
        THEN [res |-> RunCommand("sudo", inst),
              calls |-> <<Run("pacman -V", "probe", p1),
                          Run("sudo pacman -S --noconfirm git", "install", inst)>>]
        ELSE [res |-> RunCommand("sudo", inst),
              calls |-> <<Run("pacman -V", "probe", p1),
                          Run("sudo apt-get install -y git", "install", inst)>>]
    ELSE IF o = "windows" THEN
        IF ProbeOk(p1)
        THEN [res |-> RunCommand("choco", inst),
              calls |-> <<Run("choco --version", "probe", p1),
                          Run("choco install git -y", "install", inst)>>]
        ELSE IF ProbeOk(p2)
        THEN [res |-> RunCommand("winget", inst),
              calls |-> <<Run("choco --version", "probe", p1),
                          Run("winget --version", "probe", p2),
                          Run("winget install --id Git.Git --silent", "install", inst)>>]
        ELSE [res |-> Err("CommandFailed",
                          "Neither Chocolatey nor Winget is installed. Please install one of them first."),
              calls |-> <<Run("choco --version", "probe", p1),
                          Run("winget --version", "probe", p2)>>]
    ELSE [res |-> Err("CommandFailed", "OS not supported"), calls |-> <<>>]

\* install_git(); an install command that exits with status 0 has made git
\* callable.  The record keeps how `git --version` would have ended when
\* install_git was called.
InstallGit ==
    \E p1 \in Outcomes, p2 \in Outcomes, inst \in Outcomes :
        LET r == InstallBody(os, p1, p2, inst) IN
        /\ last' = Last("install_git", <<git>>, r.res, r.calls)
        /\ git' = IF r.res = Ok THEN "ok" ELSE git
        /\ UNCHANGED <<os, config, backup, store, saved, created, store0, proc>>

InitInstall ==
    /\ os \in OsKinds
    /\ git \in Outcomes
    /\ last = NoLast
    /\ config = [k \in Keys |-> None] /\ backup = None /\ store = None
    /\ saved = None /\ created = <<>> /\ store0 = None /\ proc = <<>>

NextInstall == IsGitInstalled \/ InstallGit

SpecInstall == InitInstall /\ [][NextInstall]_vars

\* ------------------------------------------------------- claims: install

Installs(calls) == {i \in 1..Len(calls) : calls[i].kind = "install"}

\* C4: install_git called when `git --version` already succeeds returns Ok
\* and makes no package-manager invocation, probe or install.
C4_NoOpWhenInstalled ==
    (last.op = "install_git" /\ last.arg = <<"ok">>)
    => (last.res = Ok /\ last.calls = <<>>)

\* C10: the installer's decision table.  One install_git call makes at most
\* one install invocation, as its last invocation, and none twice.  macOS:
\* without a launchable brew, CommandFailed naming Homebrew and no install,
\* otherwise `brew install git`.  Linux: `sudo pacman ...` when pacman can
\* be launched, otherwise `sudo apt-get ...`.  Windows: choco, else winget,
\* else CommandFailed naming both.  Any other system: CommandFailed("OS not
\* supported") and no invocation.  The result is Ok exactly when the install
\* invocation exited with status 0.
C10_DecisionTable ==
    (last.op = "install_git") =>
        LET calls == last.calls
            n == Len(calls)
            probed(i, cmd) == n >= i /\ calls[i] = Run(cmd, "probe", calls[i].out)
            installed(i, cmd) == n = i /\ calls[i] = Run(cmd, "install", calls[i].out)
        IN  /\ Cardinality(Installs(calls)) <= 1
            /\ Installs(calls) \subseteq {n}
            /\ \A i, j \in 1..n : i # j => calls[i].cmd # calls[j].cmd
            /\ last.res = Ok <=> \E i \in Installs(calls) : calls[i].out = "ok"
            /\ last.res # Ok => last.res[2] = "CommandFailed"
            /\ os = "macos" =>
                   /\ probed(1, "brew --version")
                   /\ IF calls[1].out = "launch_err"
                      THEN n = 1 /\ last.res = Err("CommandFailed",
                               "Homebrew is not installed. Please install Homebrew first.")
                      ELSE installed(2, "brew install git")
            /\ os = "linux" =>
                   /\ probed(1, "pacman -V")
                   /\ IF calls[1].out # "launch_err"
                      THEN installed(2, "sudo pacman -S --noconfirm git")
                      ELSE installed(2, "sudo apt-get install -y git")
            /\ os = "windows" =>
                   /\ probed(1, "choco --version")
                   /\ IF calls[1].out # "launch_err"
                      THEN installed(2, "choco install git -y")
                      ELSE /\ probed(2, "winget --version")
                           /\ IF calls[2].out # "launch_err"
                              THEN installed(3, "winget install --id Git.Git --silent")
                              ELSE n = 2 /\ last.res = Err("CommandFailed",
                                       "Neither Chocolatey nor Winget is installed. Please install one of them first.")
            /\ os = "other" =>
                   (n = 0 /\ last.res = Err("CommandFailed", "OS not supported"))

\* An install command was launched and exited with a failure status, and
\* install_git reported the failure.
C10_Witness ==
    /\ last.op = "install_git" /\ last.res # Ok
    /\ \E i \in Installs(last.calls) : last.calls[i].out = "exit_fail"

\* ------------------------------------------------------ claims: profiles

\* A profile file that exists and is not a TOML document of distinct tables.
Corrupt(file) ==
    /\ file # None
    /\ \/ \E i \in 1..Len(file[1]) : file[1][i] = Junk
       \/ \E i, j \in 1..Len(file[1]) :
              i < j /\ file[1][i][1] = "table" /\ file[1][j][1] = "table"
              /\ file[1][i][2] = file[1][j][2]

\* The tables of profile p in a file.
TablesOf(file, p) ==
    IF file = None THEN {}
    ELSE {i \in 1..Len(file[1]) : file[1][i][1] = "table" /\ file[1][i][2] = p}

\* C2: when use_profile(p) returns Ok after create_profile(p, name, email)
\* returned Ok, with no create_profile on p in between, get_git_config
\* returns Some(name) for user.name and Some(email) for user.email.
C2_UseAfterCreate ==
    (last.op = "use_profile" /\ last.res = Ok /\ created[last.arg[1]] # None)
    => /\ Get(config, UserName) = Some(created[last.arg[1]][1].name)
       /\ Get(config, UserEmail) = Some(created[last.arg[1]][1].email)

\* C3: use_profile(p) on a name that is not a key of the successfully
\* loaded store fails with the error kind NotFound.
C3_AbsentProfileNotFound ==
    (last.op = "use_profile" /\ ~Corrupt(store) /\ TablesOf(store, last.arg[1]) = {})
    => (last.res # Ok /\ last.res[2] = "NotFound")

C8_StoreIsLastCreated ==
    store0 = None =>
        /\ ~Corrupt(store)
        /\ \A p \in ProfileNames :
               /\ created[p] = None => TablesOf(store, p) = {}
               /\ created[p] # None =>
                      /\ Cardinality(TablesOf(store, p)) = 1
                      /\ \A i \in TablesOf(store, p) :
                             store[1][i] = Table(p, created[p][1])
        /\ store # None =>
               Len(store[1]) = Cardinality({p \in ProfileNames : created[p] # None})
        /\ store = None => \A p \in ProfileNames : created[p] = None

\* A profile has just been created again with other values while another
\* profile is in the store.
C8_Witness ==
    /\ store0 = None /\ last.op = "create_profile" /\ last.res = Ok
    /\ last.arg[4] = "changed"
    /\ \E q \in ProfileNames : q # last.arg[1] /\ created[q] # None

\* ------------------------------------------- create_profile, two processes

\* Two processes, each running create_profile once.  The steps of one
\* create_profile are those at which it touches the profile file:
\* load_profiles reads it; fs::write (File::create, then write_all) first
\* truncates it and then writes the data at offset 0.  A table stands for the
\* same number of bytes whatever it holds.
Procs == {1, 2}

Idle == [pc |-> "idle", arg |-> <<>>, mem |-> EmptyMap, data |-> <<>>, res |-> Ok]

\* write_all that appends to what the file holds.
OverwriteMutAppend(content, data) == content \o data

\* write_all(data) through a fresh handle: data replaces the start of the
\* file, what the file holds beyond it stays.
Overwrite(content, data) ==
    data \o SubSeq(content, Len(data) + 1, Len(content))

\* let mut profiles = load_profiles()?; profiles.insert(..)
ProcLoad(i) ==
    /\ proc[i].pc = "idle"
    /\ \E p \in ProfileNames, a \in ProfileArgs :
        LET l == LoadProfiles(store) IN
        IF l.res # Ok
        THEN proc' = [proc EXCEPT ![i] =
                 [pc |-> "done", arg |-> <<p, a[1], a[2]>>, mem |-> EmptyMap,
                  data |-> <<>>, res |-> l.res]]
        ELSE proc' = [proc EXCEPT ![i] =
                 [pc |-> "loaded", arg |-> <<p, a[1], a[2]>>,
                  mem |-> Insert(l.map, p, GitProfile(a[1], a[2])),
                  data |-> <<>>, res |-> Ok]]
    /\ UNCHANGED <<os, git, config, backup, store, last, saved, created, store0>>

\* save_profiles: toml::to_string, then File::create inside fs::write.
ProcOpen(i) ==
    /\ proc[i].pc = "loaded"
    /\ \E data \in TomlStrings(proc[i].mem) :
           proc' = [proc EXCEPT ![i].pc = "opened", ![i].data = data]
    /\ store' = Some(<<>>)
    /\ UNCHANGED <<os, git, config, backup, last, saved, created, store0>>

\* save_profiles: write_all inside fs::write; create_profile returns Ok.
ProcWrite(i) ==
    /\ proc[i].pc = "opened"
    /\ store' = Some(Overwrite(store[1], proc[i].data))
    /\ proc' = [proc EXCEPT ![i].pc = "done"]
    /\ last' = Last("write", <<i>>, Ok, <<>>)
    /\ UNCHANGED <<os, git, config, backup, saved, created, store0>>

InitConc ==
    /\ store \in InitStores
    /\ store0 = store
    /\ proc = [i \in Procs |-> Idle]
    /\ last = NoLast
    /\ config = [k \in Keys |-> None] /\ backup = None /\ saved = None
    /\ created = <<>> /\ os = "linux" /\ git = "ok"

NextConc == \E i \in Procs : ProcLoad(i) \/ ProcOpen(i) \/ ProcWrite(i)

SpecConc == InitConc /\ [][NextConc]_vars

\* ---------------------------------------------------- claims: concurrency

AllDone == \A i \in Procs : proc[i].pc = "done"

IsPrefix(s, t) == Len(s) <= Len(t) /\ SubSeq(t, 1, Len(s)) = s

\* C9 as stated: when both create_profile calls have returned, the file is
\* exactly the serialized in-memory mapping of the process that wrote last.
C9_FileIsLastWritersData ==
    (AllDone /\ last.op = "write") => store = Some(proc[last.arg[1]].data)

\* C9 as amended: when both create_profile calls have returned, the file
\* starts with the whole serialized mapping of the process that wrote last,
\* and is either exactly that or that followed by the end of the other
\* process's longer data.
C9_FileStartsWithLastWritersData ==
    (AllDone /\ last.op = "write") =>
        LET w == last.arg[1]
            d == proc[w].data
        IN  /\ store # None /\ IsPrefix(d, store[1])
            /\ \/ store[1] = d
               \/ \E j \in Procs \ {w} :
                      /\ proc[j].res = Ok /\ Len(proc[j].data) > Len(d)
                      /\ store[1] = d \o SubSeq(proc[j].data, Len(d) + 1,
                                                Len(proc[j].data))

\* The lost update: two create_profile calls on different profile names both
\* returned Ok and the file holds the last writer's mapping, in which the
\* other writer's profile is missing.
C9_Witness ==
    /\ AllDone /\ last.op = "write"
    /\ \A i \in Procs : proc[i].res = Ok
    /\ proc[1].arg[1] # proc[2].arg[1]
    /\ store = Some(proc[last.arg[1]].data)
    /\ \E j \in Procs \ {last.arg[1]} : TablesOf(store, proc[j].arg[1]) = {}

\* ------------------------------------------------------- claims: backup

CountEq(line) == Cardinality({i \in 1..Len(line) : line[i] = EQ})

Plain(v) == \A i \in 1..Len(v) : v[i] \notin {EQ, NL}

AllCallsOk == \A i \in 1..Len(last.calls) : last.calls[i].out = "ok"

\* C1: after backup_config on a configuration with user.name = A and
\* user.email = B (no '=' or newline in either), any later settings, and a
\* restore_config that returns Ok with every git invocation exiting 0,
\* get_git_config returns Some(A) for user.name and Some(B) for user.email.
C1_RoundTrip ==
    ( /\ last.op = "restore_config" /\ last.res = Ok /\ AllCallsOk
      /\ saved # None
      /\ \A k \in Keys : saved[1][k] # None /\ Plain(saved[1][k][1]) )
    => /\ Get(config, UserName) = saved[1][UserName]
       /\ Get(config, UserEmail) = saved[1][UserEmail]

\* C5: an operation that sets configuration values (configure_git, and
\* restore_config and use_profile through it) returns Ok only when every
\* git invocation it made exited with status 0.
C5_OkOnlyOnExitZero ==
    (last.op \in {"configure_git", "restore_config", "use_profile"} /\ last.res = Ok)
    => AllCallsOk

\* C7: in restore_config a line with zero or more than one '=' causes no
\* git invocation and no error, the lines with exactly one '=' are still
\* processed, in file order, and a file made only of lines without exactly
\* one '=' leaves the configuration unchanged and yields Ok.
C7_MalformedLinesSkipped ==
    [][ (last'.op = "restore_config" /\ last'.arg # None) =>
        LET lines == Lines(backup[1])
            calls == last'.calls
            valid(i) == CountEq(lines[i]) = 1
        IN  /\ last'.arg = backup /\ backup' = backup
            /\ \A c \in 1..Len(calls) :
                   calls[c].line \in 1..Len(lines) /\ valid(calls[c].line)
            /\ \A c, d \in 1..Len(calls) : c < d => calls[c].line <= calls[d].line
            /\ last'.res # Ok =>
                   (calls # <<>> /\ calls[Len(calls)].out = "launch_err")
            /\ last'.res = Ok =>
                   \A i \in 1..Len(lines) : valid(i) =>
                       \E c \in 1..(Len(calls) - 1) :
                           /\ calls[c].line = i /\ calls[c].key = UserName
                           /\ calls[c+1].line = i /\ calls[c+1].key = UserEmail
                           /\ \A d \in 1..Len(calls) :
                                  calls[d].line = i => d \in {c, c+1}
            /\ (\A i \in 1..Len(lines) : ~valid(i)) =>
                   (config' = config /\ last'.res = Ok /\ calls = <<>>)
      ]_vars

\* A restore that returned Ok on a file whose malformed line is followed by
\* a well-formed one, which was applied.
C7_Witness ==
    /\ last.op = "restore_config" /\ last.arg # None /\ last.res = Ok
    /\ LET lines == Lines(last.arg[1]) IN
       \E i, j \in 1..Len(lines) :
           /\ i < j /\ CountEq(lines[i]) # 1 /\ CountEq(lines[j]) = 1
           /\ \E c \in 1..Len(last.calls) :
                  last.calls[c].line = j /\ last.calls[c].out = "ok"

====
